---- MODULE Spec2Model ----
(***************************************************************************)
(* Model of the snippet layout engine of error_snippet                     *)
(* (src/src/render/graphical.rs) and of the data it consumes               *)
(* (src/src/lib.rs).                                                       *)
(*                                                                         *)
(* A Rust `str` is modelled as the sequence of its UTF-8 bytes.  The bytes *)
(* that matter to the code are told apart: "NL" is '\n', "CR" is '\r',     *)
(* "W1" "W2" are the lead and the continuation byte of one two-byte        *)
(* character, every other byte is a one-byte character.                    *)
(***************************************************************************)
EXTENDS Integers, Sequences, FiniteSets, TLC

VARIABLES
    content,    \* the content of the source the call works on (Source::content)
    input,      \* the arguments of the call
    op,         \* "init" before the call, the name of the function after it
    res         \* what the call returned

vars == <<content, input, op, res>>

-----------------------------------------------------------------------------
(* Bounds *)

\* longest source content, in characters
MaxChars == 3
\* largest byte offset used as a range endpoint or index
MaxOffset == 7
\* largest value of GraphicalRenderer::context_lines
MaxContext == 2
\* longest source content under the label grouper, in characters
MaxGroupChars == 1
\* most labels given to the label grouper
MaxLabels == 2
\* largest byte offset of a label range given to the label grouper
MaxLabelOffset == 2
\* longest content given to the help renderer, in characters
MaxHelpChars == 1
\* most suggestions of a help message
MaxSuggestions == 2
\* largest byte offset of a suggestion
MaxSuggestionOffset == 2
\* longest inserted or replacing string
MaxValueLen == 1

-----------------------------------------------------------------------------
(* Strings *)

Alphabet == {"a", "NL", "CR", "W"}

CharBytes(c) == IF c = "W" THEN <<"W1", "W2">> ELSE <<c>>

RECURSIVE StrsOfChars(_)
StrsOfChars(n) ==
    IF n = 0 THEN {<<>>}
    ELSE {s \o CharBytes(c) : s \in StrsOfChars(n - 1), c \in Alphabet}

Contents == UNION {StrsOfChars(n) : n \in 0..MaxChars}

Max(a, b) == IF a > b THEN a ELSE b
Min(a, b) == IF a < b THEN a ELSE b

\* usize::saturating_sub
saturating_sub(a, b) == IF a > b THEN a - b ELSE 0

\* str::is_char_boundary
is_char_boundary(s, i) ==
    \/ i = 0
    \/ i = Len(s)
    \/ i < Len(s) /\ s[i + 1] # "W2"

\* str::chars: one entry per character (the lead byte stands for the character)
chars(s) == SelectSeq(s, LAMBDA b : b # "W2")

\* &s[a..b]: panics unless a <= b <= len and both are character boundaries
str_index(s, a, b) ==
    IF a <= b /\ b <= Len(s) /\ is_char_boundary(s, a) /\ is_char_boundary(s, b)
    THEN [panic |-> FALSE, text |-> SubSeq(s, a + 1, b)]
    ELSE [panic |-> TRUE, text |-> <<>>]

\* position (1-based) of the first '\n' of s, 0 when there is none
FirstNL(s) ==
    IF \E k \in 1..Len(s) : s[k] = "NL"
    THEN CHOOSE k \in 1..Len(s) : s[k] = "NL" /\ \A j \in 1..(k - 1) : s[j] # "NL"
    ELSE 0

\* a line of str::lines loses its "\n" and then a "\r" before it
strip_cr(s) ==
    IF Len(s) > 0 /\ s[Len(s)] = "CR" THEN SubSeq(s, 1, Len(s) - 1) ELSE s

\* str::lines: split after every '\n'; the last line needs no terminator,
\* and a trailing '\r' is kept when no '\n' follows it
RECURSIVE lines(_)
lines(s) ==
    IF Len(s) = 0 THEN <<>>
    ELSE LET k == FirstNL(s) IN
         IF k = 0 THEN <<s>>
         ELSE <<strip_cr(SubSeq(s, 1, k - 1))>> \o lines(SubSeq(s, k + 1, Len(s)))

-----------------------------------------------------------------------------
(* Coordinate mapper *)

Coord(l, c) == [line |-> l, column |-> c]

\* the `for (i, c) in str.chars().enumerate()` loop of coords_of_idx
RECURSIVE coords_scan(_, _, _, _, _)
coords_scan(cs, i, index, line, column) ==
    IF i = Len(cs) THEN [hit |-> FALSE, line |-> line, column |-> column]
    ELSE IF i = index THEN [hit |-> TRUE, line |-> line, column |-> column]
    ELSE IF cs[i + 1] = "NL" THEN coords_scan(cs, i + 1, index, line + 1, 0)
    ELSE coords_scan(cs, i + 1, index, line, column + 1)

coords_of_idx(str, index) ==
    IF index > Len(str)
    THEN LET ls == lines(str) IN
         Coord(saturating_sub(Len(ls), 1),
               IF Len(ls) = 0 THEN 0 ELSE Len(ls[Len(ls)]))
    ELSE LET r == coords_scan(chars(str), 0, index, 0, 0) IN
         IF r.hit THEN Coord(r.line, r.column)
         ELSE IF index = Len(str) THEN Coord(r.line, r.column)
         ELSE Coord(0, 0)

coords_of_span(str, range) ==
    [start |-> coords_of_idx(str, range.start), end |-> coords_of_idx(str, range.end)]

is_multiline(span) == span.start.line # span.end.line

-----------------------------------------------------------------------------
(* Context extractor *)

\* the first loop of extract_with_context_offset: one byte span per line,
\* the next line starting one byte after the end of the previous one
RECURSIVE line_spans_from(_, _, _)
line_spans_from(ls, k, line_start) ==
    IF k > Len(ls) THEN <<>>
    ELSE <<[start |-> line_start, end |-> line_start + Len(ls[k])]>>
         \o line_spans_from(ls, k + 1, line_start + Len(ls[k]) + 1)

line_spans(str) == line_spans_from(lines(str), 1, 0)

\* zero-based indices of the lines whose span intersects the range
matching_lines(spans, range) ==
    {i \in 0..(Len(spans) - 1) :
        spans[i + 1].end > range.start /\ spans[i + 1].start < range.end}

SetMin(S) == CHOOSE x \in S : \A y \in S : x <= y
SetMax(S) == CHOOSE x \in S : \A y \in S : x >= y

extract_with_context_offset(str, range, context_lines) ==
    LET spans == line_spans(str)
        n == Len(spans)
        matching == matching_lines(spans, range)
    IN  IF matching = {}
        THEN LET k == context_lines * 2 + 1
                 last_line_idx == IF k < n THEN spans[k + 1].end
                                  ELSE IF n > 0 THEN spans[n].end
                                  ELSE 0
                 slice == str_index(str, 0, last_line_idx)
             IN  [panic |-> slice.panic, text |-> slice.text,
                  from |-> 0, to |-> last_line_idx,
                  offset |-> context_lines, matched |-> FALSE]
        ELSE LET first_matching_line == SetMin(matching)
                 first_match == saturating_sub(first_matching_line, context_lines)
                 last_match == Min(SetMax(matching) + context_lines, n - 1)
                 start_byte == spans[first_match + 1].start
                 end_byte == spans[last_match + 1].end
                 slice == str_index(str, start_byte, end_byte)
             IN  [panic |-> slice.panic, text |-> slice.text,
                  from |-> start_byte, to |-> end_byte,
                  offset |-> first_matching_line, matched |-> TRUE]

extract_with_context(str, range, context_lines) ==
    LET r == extract_with_context_offset(str, range, context_lines)
    IN  [panic |-> r.panic, text |-> r.text, from |-> r.from, to |-> r.to]

-----------------------------------------------------------------------------
(* Specification of the text functions: the arguments are drawn by Init,   *)
(* one action per function applies it.                                     *)

Offsets == 0..MaxOffset
Ranges == [start : Offsets, end : Offsets]

Init ==
    /\ content \in Contents
    /\ input \in [range : Ranges, context_lines : 0..MaxContext]
    /\ op = "init"
    /\ res = <<>>

CoordsOfIdx ==
    /\ op = "init"
    /\ op' = "coords_of_idx"
    /\ res' = coords_of_idx(content, input.range.start)
    /\ UNCHANGED <<content, input>>

CoordsOfSpan ==
    /\ op = "init"
    /\ op' = "coords_of_span"
    /\ res' = coords_of_span(content, input.range)
    /\ UNCHANGED <<content, input>>

ExtractWithContextOffset ==
    /\ op = "init"
    /\ op' = "extract_with_context_offset"
    /\ res' = extract_with_context_offset(content, input.range, input.context_lines)
    /\ UNCHANGED <<content, input>>

ExtractWithContext ==
    /\ op = "init"
    /\ op' = "extract_with_context"
    /\ res' = extract_with_context(content, input.range, input.context_lines)
    /\ UNCHANGED <<content, input>>

Next ==
    \/ CoordsOfIdx
    \/ CoordsOfSpan
    \/ ExtractWithContextOffset
    \/ ExtractWithContext

Spec == Init /\ [][Next]_vars

-----------------------------------------------------------------------------
(* Sources and labels *)

\* The sources of the model.  "A" and "D" are two instances with the same
\* name, "B" has another name; "none" is Option::None.
SourceIds == {"A", "B", "D"}

SourceName(src) == IF src = "B" THEN "b.lm" ELSE "a.lm"

SourceContent(src) == content

\* Option::or: the label's own source, else the diagnostic's
\* a label without a source that is given one all the same
resolve_source_always(own, diag_source) ==
    IF own # "none" THEN own ELSE "D"

resolve_source(own, diag_source) == IF own # "none" THEN own ELSE diag_source

\* Range::contains
range_contains_inclusive(range, x) == range.start <= x /\ x <= range.end
range_contains(range, x) == range.start <= x /\ x < range.end

-----------------------------------------------------------------------------
(* Label grouper *)

\* labels.sort_unstable_by_key(|l| l.range().0.start): the order of labels
\* with equal keys is not specified, so every sorted arrangement is possible
sort_unstable_by_start(labels) ==
    LET n == Len(labels)
        orders == {p \in Permutations(1..n) :
                      \A i, j \in 1..n :
                          i < j => labels[p[i]].range.start <= labels[p[j]].range.start}
    IN  {[i \in 1..n |-> labels[p[i]]] : p \in orders}

\* visited.insert(idx)
visited_insert_forgets(visited, idx) == visited
visited_insert(visited, idx) == visited \cup {idx}

\* "If the parent label only spans a single line, it cannot contain any children"
parent_is_multiline(parent_source, parent_span) ==
    is_multiline(coords_of_span(SourceContent(parent_source), parent_span))

\* the inner loop: `for (idx, child) in labels.iter().enumerate().skip(idx + 1)`
RECURSIVE group_children(_, _, _, _, _, _)
group_children(labels, diag_source, parent, j, children, visited) ==
    IF j > Len(labels) THEN [children |-> children, visited |-> visited]
    ELSE LET child == labels[j]
             child_source == resolve_source(child.source, diag_source)
             parent_source == resolve_source(parent.source, diag_source)
         IN  IF child_source = "none"
             THEN group_children(labels, diag_source, parent, j + 1, children, visited)
             ELSE IF SourceName(child_source) # SourceName(parent_source)
             THEN group_children(labels, diag_source, parent, j + 1, children, visited)
             ELSE IF range_contains(parent.range, child.range.start) /\ j \notin visited
             THEN group_children(labels, diag_source, parent, j + 1,
                                 Append(children, child), visited_insert(visited, j))
             ELSE group_children(labels, diag_source, parent, j + 1, children, visited)

\* the outer loop: `for (idx, parent) in labels.iter().cloned().enumerate()`
RECURSIVE group_contexts(_, _, _, _, _)
group_contexts(labels, diag_source, idx, contexts, visited) ==
    IF idx > Len(labels) THEN contexts
    ELSE LET parent == labels[idx]
             parent_source == resolve_source(parent.source, diag_source)
         IN  IF parent_source = "none"
             THEN group_contexts(labels, diag_source, idx + 1, contexts, visited)
             ELSE IF idx \in visited
             THEN group_contexts(labels, diag_source, idx + 1, contexts, visited)
             ELSE IF ~parent_is_multiline(parent_source, parent.range)
             THEN group_contexts(labels, diag_source, idx + 1,
                      Append(contexts, [parent |-> parent, children |-> <<>>,
                                        source |-> parent_source]),
                      visited_insert(visited, idx))
             ELSE LET scan == group_children(labels, diag_source, parent, idx + 1,
                                             <<>>, visited_insert(visited, idx))
                  IN  group_contexts(labels, diag_source, idx + 1,
                          Append(contexts, [parent |-> parent, children |-> scan.children,
                                            source |-> parent_source]),
                          scan.visited)

\* group_overlapping_labels after its sort
group_sorted_labels(diag_source, labels) ==
    group_contexts(labels, diag_source, 1, <<>>, {})

\* LabelContext::max_span
max_span(context) ==
    LET ends == {context.children[k].range.end : k \in 1..Len(context.children)}
        end == IF ends = {} THEN 0 ELSE SetMax(ends)
    IN  [start |-> context.parent.range.start,
         end |-> Max(end, context.parent.range.end)]

-----------------------------------------------------------------------------
(* Specification of the label grouper: Init draws the labels and the       *)
(* diagnostic's source, the action groups them.                            *)

GroupContents == UNION {StrsOfChars(n) : n \in 0..MaxGroupChars}

LabelRanges == [start : 0..MaxLabelOffset, end : 0..MaxLabelOffset]

\* the own source of a label: Option::None or a source
LabelSources == <<"none", "A", "B">>

\* The grouper sorts its input, so the order in which the labels are given
\* does not matter: the lists are drawn in one fixed order of the label
\* values, which LabelOfRank numbers.
LabelOfRank(r) ==
    LET w == MaxLabelOffset + 1
        k == r \div Len(LabelSources)
    IN  [source |-> LabelSources[(r % Len(LabelSources)) + 1],
         range |-> [start |-> k \div w, end |-> k % w]]

LabelRanks == 0..((MaxLabelOffset + 1) * (MaxLabelOffset + 1) * Len(LabelSources) - 1)

\* a label carries its position in the list as its identity
LabelLists ==
    UNION {{[i \in 1..n |-> [id |-> i, source |-> LabelOfRank(l[i]).source,
                             range |-> LabelOfRank(l[i]).range]] :
               l \in {x \in [1..n -> LabelRanks] : \A i \in 1..(n - 1) : x[i] <= x[i + 1]}} :
           n \in 0..MaxLabels}

InitGroup ==
    /\ content \in GroupContents
    /\ input \in [labels : LabelLists, diag_source : {"none", "D"}]
    /\ op = "init"
    /\ res = <<>>

GroupOverlappingLabels ==
    /\ op = "init"
    /\ op' = "group_overlapping_labels"
    /\ \E sorted \in sort_unstable_by_start(input.labels) :
           res' = group_sorted_labels(input.diag_source, sorted)
    /\ UNCHANGED <<content, input>>

NextGroup == GroupOverlappingLabels

SpecGroup == InitGroup /\ [][NextGroup]_vars

\* the label grouper over contents of several lines and characters
MaxLineChars == 3

LineContents == UNION {StrsOfChars(n) : n \in 0..MaxLineChars}

InitGroupLines ==
    /\ content \in LineContents
    /\ input \in [labels : LabelLists, diag_source : {"none", "D"}]
    /\ op = "init"
    /\ res = <<>>

SpecGroupLines == InitGroupLines /\ [][NextGroup]_vars

-----------------------------------------------------------------------------
(* Label renderer: what render_diagnostic lays out for the labels of a     *)
(* diagnostic.  The model keeps the rows of every snippet (line number,    *)
(* text, underlined columns) and whether the render panicked; colours and  *)
(* the glyph chosen for a column are left out.                             *)

\* GraphicalRenderer::new: gutter_margin
gutter_margin == 2

\* usize::to_string().len()
Digits(n) == IF n < 10 THEN 1 ELSE IF n < 100 THEN 2 ELSE 3

gutter_size_of(source) == Digits(Len(lines(source))) + gutter_margin

\* Span::columns, as the set of the offsets of the range
columns(span) ==
    IF span.start.column > span.end.column
    THEN {span.start.column}
    ELSE {o \in 0..span.end.column : span.start.column <= o /\ o < span.end.column}

\* the characters of a string: every unit but the continuation byte "W2"
char_indices(str) == {i \in 1..Len(str) : str[i] # "W2"}

\* str.chars().count()
chars_count(str) == Cardinality(char_indices(str))

\* the 1-based position of the first byte of the character of index n
nth_char(str, n) ==
    CHOOSE i \in char_indices(str) :
        Cardinality({j \in char_indices(str) : j < i}) = n

\* c.len_utf8() of the character that begins at position i
len_utf8(str, i) == IF i < Len(str) /\ str[i + 1] = "W2" THEN 2 ELSE 1

\* str_set_char: the character of index `offset` is replaced by c; a string
\* with no such character is left as it is
str_set_char(str, offset, c) ==
    IF offset >= chars_count(str) THEN str
    ELSE LET i == nth_char(str, offset)
         IN  SubSeq(str, 1, i - 1) \o <<c>>
                 \o SubSeq(str, i + len_utf8(str, i), Len(str))

\* " ".repeat(n)
repeat(n) == [k \in 1..n |-> " "]

\* length of the message of a label, in characters
MessageLen == 2

\* label.message: its characters are written "text"
message(label) == [k \in 1..MessageLen |-> "text"]

\* `for line_idx in 0..idx`: the lines above the one of the label of index
\* idx (1-based here)
preceding_lines(idx) == 1..(idx - 1)

\* one pass of `for (idx, (label, span)) in labels.iter().enumerate()` over
\* the rows that lead to the messages: the vertical connector of the label
\* in the rows before its own, then its elbow, its bar and its message in
\* its own row
label_text_line(label_text_lines, idx, label, span) ==
    LET last_column == saturating_sub(span.end.column, 1)
        line == str_set_char(
                    str_set_char(
                        str_set_char(label_text_lines[idx], last_column, "bottom_left"),
                        span.end.column, "hbar"),
                    span.end.column + 1, "hbar")
    IN  [k \in 1..Len(label_text_lines) |->
            IF k \in preceding_lines(idx)
            THEN str_set_char(label_text_lines[k], last_column, "vertical")
            ELSE IF k = idx THEN line \o <<" ">> \o message(label)
            ELSE label_text_lines[k]]

\* the rows below the underlines after the labels 1..idx have been written
RECURSIVE label_text_lines(_, _)
label_text_lines(labels, idx) ==
    IF idx = 0
    THEN [k \in 1..Len(labels) |-> repeat(labels[k].span.end.column + 1)]
    ELSE label_text_line(label_text_lines(labels, idx - 1), idx,
                         labels[idx].label, labels[idx].span)

\* render_line_labels: the row of underlines below a source line.  The
\* underline string has `underline_len` blanks and str_set_char changes only
\* a character that exists.  A single label is underlined with arrow_up and
\* its message is appended to the row; several labels are underlined with
\* hbar and hbot and their messages go to the rows below (`elbows`).
render_line_labels(labels) ==
    IF labels = <<>>
    THEN [drawn |-> FALSE, glyphs |-> {}, labels |-> <<>>, glyph |-> "none",
          message |-> <<>>, elbows |-> <<>>]
    ELSE LET underline_len == SetMax({labels[k].span.end.column : k \in 1..Len(labels)})
         IN  [drawn |-> TRUE,
              glyphs |-> {o \in 0..underline_len :
                             /\ o < underline_len
                             /\ \E k \in 1..Len(labels) : o \in columns(labels[k].span)},
              labels |-> [k \in 1..Len(labels) |-> labels[k].label.id],
              glyph |-> IF Len(labels) = 1 THEN "arrow_up" ELSE "hbar",
              message |-> IF Len(labels) = 1 THEN <<labels[1].label.id>> ELSE <<>>,
              elbows |-> IF Len(labels) = 1 THEN <<>>
                         ELSE label_text_lines(labels, Len(labels))]

\* line_labels.sort_by(|a, b| b.1.start.column.cmp(&a.1.start.column)):
\* a stable sort, greatest start column first
RECURSIVE sort_by_column_desc(_)
sort_by_column_desc(labels) ==
    IF labels = <<>> THEN <<>>
    ELSE LET n == Len(labels)
             rest == sort_by_column_desc(SubSeq(labels, 1, n - 1))
             x == labels[n]
             before == SelectSeq(rest, LAMBDA e : e.span.start.column >= x.span.start.column)
             after == SelectSeq(rest, LAMBDA e : e.span.start.column < x.span.start.column)
         IN  before \o <<x>> \o after

\* the labels of a context that are drawn below the line of index idx of the
\* snippet: the single-line children that start on it, greatest start column
\* first
line_labels_of(labels, span, idx) ==
    sort_by_column_desc(
        SelectSeq(labels, LAMBDA l :
            ~is_multiline(l.span) /\ l.span.start.line = span.start.line + idx))

\* one pass of the `for (idx, line) in lines` loop of render_label_context
context_line(context, span, line_num, line, line_labels) ==
    [line_num |-> line_num,
     text |-> line,
     underline |->
         IF ~is_multiline(span) /\ line_num - 1 = span.start.line /\ line_labels = <<>>
         THEN render_line_labels(<<[label |-> context.parent, span |-> span]>>)
         ELSE render_line_labels(line_labels)]

\* the children of a context with the coordinates of their spans
child_spans(context, source_content) ==
    [k \in 1..Len(context.children) |->
        [label |-> context.children[k],
         span |-> coords_of_span(source_content, context.children[k].range)]]

\* the `for (idx, line) in lines` loop of render_label_context
context_lines_loop(context, context_lines, labels, span, ls) ==
    [k \in 1..Len(ls) |->
        context_line(context, span,
                     saturating_sub(span.start.line, context_lines) + (k - 1) + 1,
                     ls[k], line_labels_of(labels, span, k - 1))]

\* render_label_context once the span and the snippet are known: a snippet
\* that could not be sliced is a panic.  `from` is the byte of the content at
\* which the snippet begins, `bottom` the label whose message is written in
\* the row that closes a multi-line span.
context_rows(context, context_lines, source_content, span, extract) ==
    [panic |-> extract.panic,
     gutter |-> gutter_size_of(source_content),
     multiline |-> is_multiline(span),
     from |-> extract.from,
     bottom |-> IF is_multiline(span) /\ ~extract.panic
                THEN <<context.parent.id>> ELSE <<>>,
     rows |-> IF extract.panic THEN <<>>
              ELSE context_lines_loop(context, context_lines,
                                      child_spans(context, source_content), span,
                                      lines(extract.text))]

\* render_label_context: the rows of one label context
render_label_context(context, context_lines) ==
    context_rows(context, context_lines, SourceContent(context.source),
                 coords_of_span(SourceContent(context.source), max_span(context)),
                 extract_with_context(SourceContent(context.source), max_span(context),
                                      context_lines))

\* what a loop of the renderer has written when the render ends: a panic ends
\* the render, so that nothing follows the first item that panicked
until_panic(rendered) ==
    LET panicked == {k \in 1..Len(rendered) : rendered[k].panic}
    IN  IF panicked = {} THEN [panic |-> FALSE, items |-> rendered]
        ELSE [panic |-> TRUE, items |-> SubSeq(rendered, 1, SetMin(panicked))]

\* the `for (idx, context) in contexts` loop of render_label_group
render_contexts(contexts, context_lines) ==
    until_panic([k \in 1..Len(contexts) |->
                    render_label_context(contexts[k], context_lines)])

\* a rendered group: its header and its contexts.  `rows` is the order of
\* the parts as written: the header, the contexts with a vertical break
\* after each one but the last, and the footer unless a context panicked.
label_group_rows(name, start, rendered) ==
    [panic |-> rendered.panic,
     header |-> <<name, start.line + 1, start.column + 1>>,
     contexts |-> rendered.items,
     rows |-> <<"header">>
              \o [k \in 1..(2 * Len(rendered.items) - 1) |->
                     IF k % 2 = 1 THEN "context" ELSE "break"]
              \o (IF rendered.panic THEN <<>> ELSE <<"footer">>)]

\* render_label_group: the header names the position of the first label of
\* the group, then the contexts of the group follow.  `sorted` is the
\* group's labels as group_overlapping_labels sorted them.
render_label_group(labels, sorted, source, context_lines) ==
    IF labels = <<>> THEN [panic |-> FALSE, header |-> <<>>, contexts |-> <<>>, rows |-> <<>>]
    ELSE label_group_rows(SourceName(source),
                          coords_of_span(SourceContent(source), labels[1].range).start,
                          render_contexts(group_sorted_labels(source, sorted),
                                          context_lines))

\* the source names of the labels that have a source, first seen first
RECURSIVE label_group_names(_, _, _)
label_group_names(labels, diag_source, names) ==
    IF labels = <<>> THEN names
    ELSE LET source == resolve_source(Head(labels).source, diag_source)
             seen == {names[k] : k \in 1..Len(names)}
         IN  IF source = "none" \/ SourceName(source) \in seen
             THEN label_group_names(Tail(labels), diag_source, names)
             ELSE label_group_names(Tail(labels), diag_source,
                                    Append(names, SourceName(source)))

\* the labels of the group of one source name
label_group(labels, diag_source, name) ==
    SelectSeq(labels, LAMBDA l :
        /\ resolve_source(l.source, diag_source) # "none"
        /\ SourceName(resolve_source(l.source, diag_source)) = name)

\* the source of a group: the source of the first label of that name
label_group_source(labels, diag_source, name) ==
    resolve_source(label_group(labels, diag_source, name)[1].source, diag_source)

\* the `for (_, group) in label_groups` loop of render_source
render_groups(labels, sorted, diag_source, context_lines, names) ==
    until_panic([k \in 1..Len(names) |->
                    render_label_group(label_group(labels, diag_source, names[k]),
                                       label_group(sorted, diag_source, names[k]),
                                       label_group_source(labels, diag_source, names[k]),
                                       context_lines)])

\* the result of a render into a sink that accepts every write
render_outcome(rendered) ==
    [outcome |-> IF rendered.panic THEN "panic" ELSE "ok", groups |-> rendered.items]

\* render_diagnostic of a diagnostic with labels and neither causes, related
\* diagnostics nor help
render_source(labels, sorted, diag_source, context_lines) ==
    render_outcome(render_groups(labels, sorted, diag_source, context_lines,
                                 label_group_names(labels, diag_source, <<>>)))

-----------------------------------------------------------------------------
(* Specification of the label renderer: Init draws the content, the label  *)
(* and the renderer's context_lines, the action renders the diagnostic.    *)

RenderLabelLists ==
    {<<[range |-> r, source |-> "none", id |-> 1]>> : r \in Ranges}

InitRender ==
    /\ content \in Contents
    /\ input \in [labels : RenderLabelLists, diag_source : {"D"},
                  context_lines : 0..MaxContext]
    /\ op = "init"
    /\ res = <<>>

RenderDiagnostic ==
    /\ op = "init"
    /\ op' = "render"
    /\ \E sorted \in sort_unstable_by_start(input.labels) :
           res' = render_source(input.labels, sorted, input.diag_source,
                                input.context_lines)
    /\ UNCHANGED <<content, input>>

NextRender == RenderDiagnostic

SpecRender == InitRender /\ [][NextRender]_vars

-----------------------------------------------------------------------------
(* Help renderer: what render_help lays out for the suggestions of a help  *)
(* message.  The renderer is the one of the test suite (use_colors is      *)
(* false), so that a styled text is the text itself.  A suggestion is      *)
(* [kind, start, end, value]: start is the offset of an Insertion, which   *)
(* has no end; value is the inserted or the replacing string, a run of one *)
(* letter.                                                                 *)

\* Suggestion::span
suggestion_span(s) ==
    IF s.kind = "Insertion" THEN [start |-> s.start, end |-> s.start + 1]
    ELSE [start |-> s.start, end |-> s.end]

\* Range<usize>::len
range_len(range) == IF range.start < range.end THEN range.end - range.start ELSE 0

\* #[derive(Ord)] on the enum: the variants in the order of declaration
variant_index(kind) ==
    IF kind = "Deletion" THEN 0 ELSE IF kind = "Insertion" THEN 1 ELSE 2

\* #[derive(Ord)] on Suggestion: the variant, then the fields in order.
\* SourceRange and SourceLocation compare their start offset only; the
\* values are runs of one letter, ordered as their lengths.
suggestion_lt(a, b) ==
    \/ variant_index(a.kind) < variant_index(b.kind)
    \/ /\ a.kind = b.kind
       /\ \/ a.start < b.start
          \/ a.start = b.start /\ a.kind # "Deletion" /\ Len(a.value) < Len(b.value)

\* suggestions.sort(): a stable sort
RECURSIVE sort_suggestions(_)
sort_suggestions(suggestions) ==
    IF suggestions = <<>> THEN <<>>
    ELSE LET n == Len(suggestions)
             rest == sort_suggestions(SubSeq(suggestions, 1, n - 1))
             x == suggestions[n]
         IN  SelectSeq(rest, LAMBDA e : ~suggestion_lt(x, e)) \o <<x>>
             \o SelectSeq(rest, LAMBDA e : suggestion_lt(x, e))

reverse(seq) == [k \in 1..Len(seq) |-> seq[Len(seq) + 1 - k]]

\* str::split_at
split_at(str, index) ==
    IF index > Len(str) \/ ~is_char_boundary(str, index)
    THEN [panic |-> TRUE, before |-> <<>>, after |-> <<>>]
    ELSE [panic |-> FALSE, before |-> SubSeq(str, 1, index),
          after |-> SubSeq(str, index + 1, Len(str))]

\* split_str_at::<3>: the greater index splits the string, the lesser one
\* splits what is before it
split_str_at(str, i1, i2) ==
    LET outer == split_at(str, Max(i1, i2))
        inner == split_at(outer.before, Min(i1, i2))
    IN  IF outer.panic \/ inner.panic
        THEN [panic |-> TRUE, before |-> <<>>, middle |-> <<>>, after |-> <<>>]
        ELSE [panic |-> FALSE, before |-> inner.before, middle |-> inner.after,
              after |-> outer.after]

style_suggestion_line(suggestion, line, span) ==
    LET cols == IF is_multiline(span)
                THEN [start |-> span.start.column, end |-> Len(line)]
                ELSE [start |-> span.start.column, end |-> span.end.column]
        length == range_len([start |-> suggestion.start, end |-> suggestion.end])
        parts == IF suggestion.kind = "Replacement"
                 THEN split_str_at(line, cols.start, cols.start + length)
                 ELSE split_str_at(line, cols.start, cols.end)
    IN  [panic |-> parts.panic,
         text |-> IF suggestion.kind = "Deletion"
                  THEN parts.before \o parts.middle \o parts.after
                  ELSE IF suggestion.kind = "Insertion"
                  THEN parts.before \o suggestion.value \o parts.middle \o parts.after
                  ELSE parts.before \o suggestion.value \o parts.after]

\* the `for suggestion in &suggestions` loop that styles the line
RECURSIVE style_suggestions(_, _, _)
style_suggestions(suggestions, idx, line) ==
    IF idx > Len(suggestions) THEN [panic |-> FALSE, text |-> line]
    ELSE LET styled == style_suggestion_line(suggestions[idx], line,
                           coords_of_span(content, suggestion_span(suggestions[idx])))
         IN  IF styled.panic THEN styled
             ELSE style_suggestions(suggestions, idx + 1, styled.text)

blanks(n) == [k \in 1..n |-> " "]
arrows_up(n) == [k \in 1..n |-> "^"]

\* one arrow for each byte of the range the suggestion names
arrow_count_of_range(s) == range_len([start |-> s.start, end |-> s.end])

\* the number of arrows below a suggestion: String::len of the literal, or
\* Range::len of the deleted range
arrow_count(s) ==
    IF s.kind = "Deletion"
    THEN range_len([start |-> s.start, end |-> s.end])
    ELSE Len(s.value)

\* the loop that draws the arrows below the suggestions
RECURSIVE suggestion_arrows(_, _, _, _)
suggestion_arrows(suggestions, idx, offset, row) ==
    IF idx > Len(suggestions) THEN row
    ELSE LET s == suggestions[idx]
             span == coords_of_span(content, suggestion_span(s))
             spacing == saturating_sub(span.start.column, offset)
         IN  suggestion_arrows(suggestions, idx + 1, span.end.column,
                               row \o blanks(spacing) \o arrows_up(arrow_count(s)))

\* the column of the row of arrows at which the arrows of each suggestion
\* begin: what the loop has written before them, and their spacing
RECURSIVE arrow_starts(_, _, _, _)
arrow_starts(suggestions, idx, offset, written) ==
    IF idx > Len(suggestions) THEN <<>>
    ELSE LET s == suggestions[idx]
             span == coords_of_span(content, suggestion_span(s))
             spacing == saturating_sub(span.start.column, offset)
         IN  <<written + spacing>>
             \o arrow_starts(suggestions, idx + 1, span.end.column,
                             written + spacing + arrow_count(s))

\* `styled` is the order in which the suggestions are applied to the line,
\* `drawn` the order in which their arrows are written, `starts` the column
\* at which the arrows of each begin
render_suggestion_line(line_num, suggestions) ==
    LET ascending == sort_suggestions(suggestions)
        descending == reverse(ascending)
        source_line == extract_with_context(content, suggestion_span(descending[1]), 0)
        styled_line == style_suggestions(descending, 1, source_line.text)
    IN  IF source_line.panic \/ styled_line.panic
        THEN [panic |-> TRUE, line_num |-> line_num + 1, text |-> <<>>, arrows |-> <<>>,
              styled |-> descending, drawn |-> <<>>, starts |-> <<>>]
        ELSE [panic |-> FALSE, line_num |-> line_num + 1, text |-> styled_line.text,
              arrows |-> suggestion_arrows(ascending, 1, 0, <<>>),
              styled |-> descending, drawn |-> ascending,
              starts |-> arrow_starts(ascending, 1, 0, 0)]

\* the line on which render_suggestion_group puts a suggestion
suggested_line(s) == coords_of_idx(content, s.start).line

\* the keys of `suggested_lines`, first seen first
RECURSIVE suggested_line_keys(_, _)
suggested_line_keys(suggestions, keys) ==
    IF suggestions = <<>> THEN keys
    ELSE IF suggested_line(Head(suggestions)) \in {keys[k] : k \in 1..Len(keys)}
    THEN suggested_line_keys(Tail(suggestions), keys)
    ELSE suggested_line_keys(Tail(suggestions),
                             Append(keys, suggested_line(Head(suggestions))))

\* the `for (index, (line, suggestions)) in suggested_lines` loop
RECURSIVE render_suggestion_lines(_, _, _, _)
render_suggestion_lines(suggestions, keys, idx, done) ==
    IF idx > Len(keys) THEN [outcome |-> "ok", rows |-> done]
    ELSE LET row == render_suggestion_line(keys[idx],
                        SelectSeq(suggestions, LAMBDA s : suggested_line(s) = keys[idx]))
         IN  IF row.panic THEN [outcome |-> "panic", rows |-> Append(done, row)]
             ELSE render_suggestion_lines(suggestions, keys, idx + 1, Append(done, row))

render_suggestion_group(suggestions) ==
    IF suggestions = <<>> THEN [outcome |-> "ok", rows |-> <<>>]
    ELSE render_suggestion_lines(suggestions, suggested_line_keys(suggestions, <<>>),
                                 1, <<>>)

\* render_help of a help message whose suggestions are all on one source,
\* into a sink that accepts every write
render_help(suggestions) == render_suggestion_group(suggestions)

-----------------------------------------------------------------------------
(* Specification of the help renderer: Init draws the content and the      *)
(* suggestions, the action renders the help message.                       *)

HelpContents == UNION {StrsOfChars(n) : n \in 0..MaxHelpChars}

SuggestionOffsets == 0..MaxSuggestionOffset

Values == {[k \in 1..n |-> "a"] : n \in 0..MaxValueLen}

Suggestions ==
    {[kind |-> "Deletion", start |-> a, end |-> b, value |-> <<>>] :
        a \in SuggestionOffsets, b \in SuggestionOffsets}
    \cup {[kind |-> "Insertion", start |-> a, end |-> a, value |-> v] :
        a \in SuggestionOffsets, v \in Values}
    \cup {[kind |-> "Replacement", start |-> r.start, end |-> r.end, value |-> v] :
        r \in [start : SuggestionOffsets, end : SuggestionOffsets], v \in Values}

SuggestionLists == UNION {[1..n -> Suggestions] : n \in 0..MaxSuggestions}

InitHelp ==
    /\ content \in HelpContents
    /\ input \in [suggestions : SuggestionLists]
    /\ op = "init"
    /\ res = <<>>

RenderHelp ==
    /\ op = "init"
    /\ op' = "render_help"
    /\ res' = render_help(input.suggestions)
    /\ UNCHANGED <<content, input>>

NextHelp == RenderHelp

SpecHelp == InitHelp /\ [][NextHelp]_vars

-----------------------------------------------------------------------------
(* The geometry of a content, counted on its bytes: what the claims about  *)
(* the coordinate mapper and the context extractor are measured against.   *)

NewlinesBefore(s, i) == Cardinality({k \in 1..i : s[k] = "NL"})

LastNewlineBefore(s, i) == SetMax({0} \cup {k \in 1..i : s[k] = "NL"})

\* characters that begin between the last newline before byte i and byte i
CharsSinceNewline(s, i) ==
    Cardinality({k \in (LastNewlineBefore(s, i) + 1)..i : s[k] # "W2"})

\* the line and column of the position at byte i of s
PositionCoord(s, i) == Coord(NewlinesBefore(s, i), CharsSinceNewline(s, i))

NewlinePositions(s) == {k \in 1..Len(s) : s[k] = "NL"}

\* the position of the k-th newline of s (k >= 1)
NthNewline(s, k) ==
    CHOOSE p \in NewlinePositions(s) :
        Cardinality({q \in NewlinePositions(s) : q <= p}) = k

LineCount(s) == Len(lines(s))

\* byte offset at which line k (zero-based) begins
LineStart(s, k) == IF k = 0 THEN 0 ELSE NthNewline(s, k)

\* byte offset at which the text of line k ends (before its "\n" or "\r\n")
LineEnd(s, k) ==
    IF Cardinality(NewlinePositions(s)) <= k THEN Len(s)
    ELSE LET p == NthNewline(s, k + 1) IN
         IF p - 1 > LineStart(s, k) /\ s[p - 1] = "CR" THEN p - 2 ELSE p - 1

\* the lines whose byte span intersects the range
IntersectingLines(s, r) ==
    {k \in 0..(LineCount(s) - 1) : LineEnd(s, k) > r.start /\ LineStart(s, k) < r.end}

-----------------------------------------------------------------------------
(* Claims about the coordinate mapper and the context extractor *)

\* C3: for every content and every byte index i <= len(content) (on a
\* character boundary), coords_of_idx returns line = the number of '\n' among
\* the first i bytes and column = the number of characters between the last
\* such newline (or the start of the content) and byte i.
C3_CoordsCountBytes ==
    (/\ op = "coords_of_idx"
     /\ input.range.start <= Len(content)
     /\ is_char_boundary(content, input.range.start))
        => res = PositionCoord(content, input.range.start)

\* C4: for every content and every byte index i > len(content), coords_of_idx
\* returns a clamped coordinate that lies inside the content: it is the
\* coordinate of some position of the content, never an out-of-bounds one.
C4_ClampedCoordInsideContent ==
    (op = "coords_of_idx" /\ input.range.start > Len(content))
        => \E b \in 0..Len(content) :
              is_char_boundary(content, b) /\ res = PositionCoord(content, b)

\* C5: when at least one line intersects the range,
\* extract_with_context_offset returns exactly the text of the lines
\* max(0, f - c) through min(l + c, lineCount - 1), f and l being the first and
\* the last intersecting line, and returns f as its second component.
C5_WindowAroundMatchingLines ==
    (op = "extract_with_context_offset" /\ IntersectingLines(content, input.range) # {})
        => LET f == SetMin(IntersectingLines(content, input.range))
               l == SetMax(IntersectingLines(content, input.range))
               c == input.context_lines
               from == LineStart(content, Max(0, f - c))
               to == LineEnd(content, Min(l + c, LineCount(content) - 1))
           IN  /\ ~res.panic
               /\ res.text = SubSeq(content, from + 1, to)
               /\ res.from = from
               /\ res.to = to
               /\ res.offset = f

\* C6: for every content and every range lying entirely outside the content's
\* byte range, extract_with_context returns a non-empty string that begins at
\* byte 0 of the content.
C6_FallbackIsNonEmpty ==
    (/\ op = "extract_with_context"
     /\ input.range.start >= Len(content)
     /\ input.range.end >= Len(content))
        => /\ ~res.panic
           /\ res.from = 0
           /\ res.text # <<>>

\* C7: when no line intersects the range, extract_with_context_offset returns
\* exactly the first min(2 * c + 1, lineCount) lines of the content.
C7_FallbackWindowSize ==
    (op = "extract_with_context_offset" /\ IntersectingLines(content, input.range) = {})
        => LET m == Min(2 * input.context_lines + 1, LineCount(content))
               to == IF m = 0 THEN 0 ELSE LineEnd(content, m - 1)
           IN  /\ ~res.panic
               /\ res.from = 0
               /\ res.to = to
               /\ res.text = SubSeq(content, 1, to)

-----------------------------------------------------------------------------
(* Claims about the label grouper *)

Grouped == op = "group_overlapping_labels"

ResolvedSource(label) == resolve_source(label.source, input.diag_source)

\* the places of the result that hold the label of identity id
ParentSlots(id) == {k \in 1..Len(res) : res[k].parent.id = id}

ChildSlots(id) ==
    {<<k, m>> \in (1..Len(res)) \X (1..MaxLabels + 1) :
        m <= Len(res[k].children) /\ res[k].children[m].id = id}

\* C8: every label that has a resolvable source is in exactly one
\* LabelContext, as its parent or as one of its children: no label is a child
\* of two contexts, and a child is never also the parent of a context.
C8_LabelsPartitioned ==
    Grouped =>
        \A i \in 1..Len(input.labels) :
            ResolvedSource(input.labels[i]) # "none" =>
                /\ Cardinality(ParentSlots(i)) + Cardinality(ChildSlots(i)) = 1
                /\ Cardinality(ChildSlots(i)) <= 1
                /\ ChildSlots(i) # {} => ParentSlots(i) = {}

C8_Witness ==
    /\ Grouped
    /\ \E k \in 1..Len(res) : Len(res[k].children) >= 1

RangeInContent(s, range) ==
    /\ range.start <= range.end
    /\ range.end <= Len(s)
    /\ is_char_boundary(s, range.start)
    /\ is_char_boundary(s, range.end)

\* the label lies in its content and no newline is between its start and end
SingleLine(label) ==
    LET s == SourceContent(ResolvedSource(label)) IN
    /\ RangeInContent(s, label.range)
    /\ NewlinesBefore(s, label.range.start) = NewlinesBefore(s, label.range.end)

BytesOf(range) == {b \in 0..MaxLabelOffset + 1 : range.start <= b /\ b < range.end}

\* disjoint single-line labels that all resolve to one source
DisjointSingleLineLabels ==
    /\ \A i \in 1..Len(input.labels) :
           /\ ResolvedSource(input.labels[i]) # "none"
           /\ ResolvedSource(input.labels[i]) = ResolvedSource(input.labels[1])
           /\ SingleLine(input.labels[i])
    /\ \A i, j \in 1..Len(input.labels) :
           i # j => BytesOf(input.labels[i].range) \cap BytesOf(input.labels[j].range) = {}

\* C10: a LabelContext whose parent spans a single line never has children;
\* so disjoint single-line labels on one source yield one childless context
\* per label, in ascending order of range start.
C10_SingleLineParentsAreLeaves ==
    Grouped =>
        /\ \A k \in 1..Len(res) :
               SingleLine(res[k].parent) => res[k].children = <<>>
        /\ DisjointSingleLineLabels =>
               /\ Len(res) = Len(input.labels)
               /\ \A k \in 1..Len(res) : res[k].children = <<>>
               /\ \A i \in 1..Len(input.labels) : \E k \in 1..Len(res) : res[k].parent.id = i
               /\ \A k \in 1..(Len(res) - 1) :
                      res[k].parent.range.start <= res[k + 1].parent.range.start

-----------------------------------------------------------------------------
(* Claims about the renderer *)

\* C1: for any source content and any label byte range (reversed, beyond the
\* content, of zero length), rendering the diagnostic never panics: with a
\* sink that accepts every write the render returns Ok.
C1_RenderNeverPanics ==
    op = "render" => res.outcome = "ok"

\* C2: for any Help whose suggestions carry arbitrary byte ranges or offsets
\* (past the end of their line, past the end of the content), rendering never
\* panics: the only failure of a render is a write error of the sink.
C2_HelpNeverPanics ==
    op = "render_help" => res.outcome = "ok"

-----------------------------------------------------------------------------
(* The diagnostic tree: render_diagnostic, render_header, render_source and
   render_footer as a step machine over a sink that may refuse a write.

   A diagnostic of the tree is named by its path from the root: a sequence of
   <<kind, i>> with kind "cause" or "related".  Every diagnostic above depth
   input.depth has input.causes causes and input.related related diagnostics.
   The renderer and the sink live in res: current_indent, the stack of
   render_diagnostic calls in progress, the sink, the result of the call. *)

MaxCauses == 1
MaxRelated == 1
MaxDepth == 2
MaxCapacity == 20

padding == 6

causes(node) == IF Len(node) < input.depth THEN input.causes ELSE 0

related(node) == IF Len(node) < input.depth THEN input.related ELSE 0

\* fmt::Write::write_str of a sink that accepts `capacity` writes
write_str(sink, unit) ==
    IF Len(sink.written) < sink.capacity
    THEN [sink EXCEPT !.written = Append(@, unit)]
    ELSE [sink EXCEPT !.refused = @ + 1]

\* the `?` after a write: an Err leaves the function at once
try_swallows(failed) == FALSE

try(failed) == failed

\* a run of `write!(..)?;` statements
RECURSIVE write_all(_, _)
write_all(sink, units) ==
    IF units = <<>> THEN sink
    ELSE IF try(write_str(sink, Head(units)).refused > sink.refused)
         THEN write_str(sink, Head(units))
         ELSE write_all(write_str(sink, Head(units)), Tail(units))

\* an ident() that forgets the nesting
ident_of_root(current_indent) == 0

ident(current_indent) == current_indent * padding

\* one write of a row of `node`; `indent` is the ident() written in front
unit(node, part, indent) == [node |-> node, part |-> part, indent |-> indent]

\* a header that is followed at once by the snippets
header_then_labels(node, current_indent) ==
    <<[node |-> node, part |-> "ident", indent |-> current_indent * padding],
      [node |-> node, part |-> "snippet", indent |-> current_indent * padding]>>

render_header(node, current_indent) ==
    <<unit(node, "ident", ident(current_indent)), unit(node, "severity", 0)>>
    \o (IF input.code THEN <<unit(node, "code", 0)>> ELSE <<>>)
    \o <<unit(node, "message", 0)>>

\* the snippets of the diagnostic's labels (render_label_group)
render_labels(node, current_indent) ==
    IF input.labels THEN <<unit(node, "snippet", ident(current_indent))>> ELSE <<>>

render_footer(node, current_indent) ==
    IF input.help THEN <<unit(node, "help", ident(current_indent))>> ELSE <<>>

frame(node, pc, i) == [node |-> node, pc |-> pc, i |-> i]

top == res.stack[Len(res.stack)]

set_top(fr) == [res.stack EXCEPT ![Len(res.stack)] = fr]

pop == SubSeq(res.stack, 1, Len(res.stack) - 1)

\* an Err travels through every `?` of the calls in progress
returns_err(sink) ==
    /\ res' = [res EXCEPT !.sink = sink, !.stack = <<>>, !.result = "err"]
    /\ op' = "returned"

TreeInputs ==
    [causes : 0..MaxCauses, related : 0..MaxRelated, depth : 0..MaxDepth,
     code : BOOLEAN, labels : BOOLEAN, help : BOOLEAN, capacity : 0..MaxCapacity]

InitTree ==
    /\ content = <<>>
    /\ input \in TreeInputs
    /\ op = "init"
    /\ res = [current_indent |-> 0, stack |-> <<>>, result |-> "none",
              sink |-> [written |-> <<>>, capacity |-> input.capacity, refused |-> 0]]

\* Renderer::render_fmt calls render_diagnostic on the root
RenderFmt ==
    /\ op = "init"
    /\ op' = "render_fmt"
    /\ res' = [res EXCEPT !.stack = <<frame(<<>>, "render_header", 0)>>]
    /\ UNCHANGED <<content, input>>

Rendering(pc) == op = "render_fmt" /\ res.stack # <<>> /\ top.pc = pc

wrote(sink) == sink.refused = res.sink.refused

RenderHeader ==
    /\ Rendering("render_header")
    /\ IF wrote(write_all(res.sink, render_header(top.node, res.current_indent)))
       THEN /\ res' = [res EXCEPT
                         !.sink = write_all(res.sink, render_header(top.node, res.current_indent)),
                         !.stack = set_top(frame(top.node, "causes", 1))]
            /\ op' = op
       ELSE returns_err(write_all(res.sink, render_header(top.node, res.current_indent)))
    /\ UNCHANGED <<content, input>>

\* self.current_indent += 1; self.render_diagnostic(f, cause)
EnterChild(pc, kind, after) ==
    /\ Rendering(pc)
    /\ res' = [res EXCEPT
                 !.current_indent = @ + 1,
                 !.stack = Append(set_top(frame(top.node, after, top.i)),
                                  frame(Append(top.node, <<kind, top.i>>), "render_header", 0))]
    /\ UNCHANGED <<content, input, op>>

\* a child after which the counter is left as it is
dedent_forgotten(current_indent) == current_indent

\* self.current_indent -= 1
dedent(current_indent) == current_indent - 1

\* writeln!(f)?; self.current_indent -= 1;
LeaveChild(after, kind, pc) ==
    /\ Rendering(after)
    /\ IF wrote(write_all(res.sink, <<unit(Append(top.node, <<kind, top.i>>), "blank", 0)>>))
       THEN /\ res' = [res EXCEPT
                         !.sink = write_all(res.sink, <<unit(Append(top.node, <<kind, top.i>>), "blank", 0)>>),
                         !.current_indent = dedent(@),
                         !.stack = set_top(frame(top.node, pc, top.i + 1))]
            /\ op' = op
       ELSE returns_err(write_all(res.sink, <<unit(Append(top.node, <<kind, top.i>>), "blank", 0)>>))
    /\ UNCHANGED <<content, input>>

EnterCause ==
    /\ Rendering("causes")
    /\ top.i <= causes(top.node)
    /\ EnterChild("causes", "cause", "after_cause")

LeaveCause ==
    /\ Rendering("after_cause")
    /\ LeaveChild("after_cause", "cause", "causes")

RenderLabels ==
    /\ Rendering("causes")
    /\ top.i > causes(top.node)
    /\ IF wrote(write_all(res.sink, render_labels(top.node, res.current_indent)))
       THEN /\ res' = [res EXCEPT
                         !.sink = write_all(res.sink, render_labels(top.node, res.current_indent)),
                         !.stack = set_top(frame(top.node, "related", 1))]
            /\ op' = op
       ELSE returns_err(write_all(res.sink, render_labels(top.node, res.current_indent)))
    /\ UNCHANGED <<content, input>>

EnterRelated ==
    /\ Rendering("related")
    /\ top.i <= related(top.node)
    /\ EnterChild("related", "related", "after_related")

LeaveRelated ==
    /\ Rendering("after_related")
    /\ LeaveChild("after_related", "related", "related")

\* render_footer, then render_diagnostic returns Ok to its caller
RenderFooter ==
    /\ Rendering("related")
    /\ top.i > related(top.node)
    /\ IF wrote(write_all(res.sink, render_footer(top.node, res.current_indent)))
       THEN /\ res' = [res EXCEPT
                         !.sink = write_all(res.sink, render_footer(top.node, res.current_indent)),
                         !.stack = pop,
                         !.result = IF Len(res.stack) = 1 THEN "ok" ELSE @]
            /\ op' = IF Len(res.stack) = 1 THEN "returned" ELSE op
       ELSE returns_err(write_all(res.sink, render_footer(top.node, res.current_indent)))
    /\ UNCHANGED <<content, input>>

NextTree ==
    \/ RenderFmt
    \/ RenderHeader
    \/ EnterCause
    \/ LeaveCause
    \/ RenderLabels
    \/ EnterRelated
    \/ LeaveRelated
    \/ RenderFooter

SpecTree == InitTree /\ [][NextTree]_vars

-----------------------------------------------------------------------------
(* Claims about the diagnostic tree *)

Written == res.sink.written

Returned == op = "returned"

IsPrefix(p, q) == Len(p) <= Len(q) /\ SubSeq(q, 1, Len(p)) = p

Ancestors(node) == {SubSeq(node, 1, m) : m \in 0..Len(node)}

\* the diagnostics whose rendering a write belongs to: the blank line after a
\* child is written by its parent
Renderings(e) ==
    IF e.part = "blank"
    THEN Ancestors(SubSeq(e.node, 1, Len(e.node) - 1))
    ELSE Ancestors(e.node)

\* where a write lies in the rendering of diagnostic n: 0 its header, 1 one of
\* its causes, 2 its snippets, 3 one of its related diagnostics, 4 its footer
Stage(n, e) ==
    IF e.node = n
    THEN (IF e.part = "snippet" THEN 2 ELSE IF e.part = "help" THEN 4 ELSE 0)
    ELSE (IF e.node[Len(n) + 1][1] = "cause" THEN 1 ELSE 3)

ChildIndex(n, e) == IF e.node = n THEN 0 ELSE e.node[Len(n) + 1][2]

\* C11: for every diagnostic the output follows the order: its header line;
\* the full rendering of each cause, in iteration order; its own label
\* snippets; the full rendering of each related diagnostic, in iteration
\* order; its help and suggestion footer.
C11_DiagnosticPartsInOrder ==
    \A k \in 1..Len(Written) : \A j \in 1..(k - 1) :
        \A n \in Renderings(Written[j]) \cap Renderings(Written[k]) :
            /\ Stage(n, Written[j]) <= Stage(n, Written[k])
            /\ Stage(n, Written[j]) = Stage(n, Written[k]) =>
                   ChildIndex(n, Written[j]) <= ChildIndex(n, Written[k])

C11_Witness ==
    /\ Returned
    /\ res.result = "ok"
    /\ input.causes >= 1 /\ input.related >= 1 /\ input.depth >= 1
    /\ input.labels /\ input.help
    /\ \E k \in 1..Len(Written) : Written[k].part = "help" /\ Written[k].node = <<>>

RowStart == {"ident", "snippet", "help"}

InSubtree(n, e) == IsPrefix(n, e.node)

\* C12: while a diagnostic at depth d is rendered the indentation counter is
\* d, so its header and snippet rows start with d * padding spaces; the
\* rendering of each cause and related diagnostic is followed by exactly one
\* blank line before the parent continues.
C12_IndentIsDepth ==
    /\ \A k \in 1..Len(Written) :
           Written[k].part \in RowStart => Written[k].indent = Len(Written[k].node) * padding
    /\ (op = "render_fmt" /\ top.pc \in {"render_header", "causes", "related"}) =>
           res.current_indent = Len(top.node)
    /\ \A k \in 1..(Len(Written) - 1) :
           /\ (Written[k].part # "blank" /\ ~InSubtree(Written[k].node, Written[k + 1])) =>
                  Written[k + 1] = [node |-> Written[k].node, part |-> "blank", indent |-> 0]
           /\ Written[k].part = "blank" =>
                  /\ ~InSubtree(Written[k].node, Written[k + 1])
                  /\ Written[k + 1].part = "blank" =>
                         Written[k + 1].node = SubSeq(Written[k].node, 1, Len(Written[k].node) - 1)
    /\ \A k \in 2..Len(Written) :
           Written[k].part = "blank" =>
               /\ InSubtree(Written[k].node, Written[k - 1])
               /\ Written[k - 1] # Written[k]

C12_Witness ==
    /\ Returned
    /\ res.result = "ok"
    /\ \E k \in 1..Len(Written) : Written[k].part = "snippet" /\ Written[k].indent = 2 * padding
    /\ \E k \in 1..Len(Written) : Written[k].part = "blank" /\ Len(Written[k].node) = 1

\* C13: the indentation counter is call-scoped: whenever a top-level render
\* returns, with Ok or with a write error raised at any nesting depth,
\* current_indent has the value it had before the call, 0.
C13_IndentRestoredOnReturn ==
    Returned => res.current_indent = 0

\* C14: when a write to the sink fails the render stops at once: no further
\* write is attempted and the error is the single result; the render returns
\* Ok only if every write succeeded.
C14_StopsAtFirstWriteError ==
    /\ res.sink.refused <= 1
    /\ op = "render_fmt" => res.sink.refused = 0
    /\ Returned => /\ res.result \in {"ok", "err"}
                   /\ res.result = "ok" <=> res.sink.refused = 0
                   /\ res.stack = <<>>

C14_Witness ==
    /\ Returned
    /\ res.result = "err"
    /\ res.sink.refused = 1
    /\ Len(Written) = input.capacity
    /\ Len(Written) >= 1

-----------------------------------------------------------------------------
(* Claims about the rows of a snippet *)

Rendered == op = "render"

\* the rows, over all snippets, that are followed by a row of underlines
UnderlinedRows ==
    {<<g, c, k>> \in (1..Len(res.groups)) \X (1..MaxLabels + 1) \X (1..MaxChars + 2) :
        /\ c <= Len(res.groups[g].contexts)
        /\ k <= Len(res.groups[g].contexts[c].rows)
        /\ res.groups[g].contexts[c].rows[k].underline.drawn}

RowAt(p) == res.groups[p[1]].contexts[p[2]].rows[p[3]]

ColumnsBetween(a, b) == {o \in 0..b : a <= o /\ o < b}

\* C15: a single-line label that is the only label on its line is underlined
\* by exactly one row holding exactly (end column - start column) '^' glyphs
\* at the columns start..end of the source line above it, followed on the
\* same row by a space and the label's message.
C15_SingleLabelUnderline ==
    (Rendered /\ SingleLine(input.labels[1])) =>
        /\ res.outcome = "ok"
        /\ Cardinality(UnderlinedRows) = 1
        /\ \A p \in UnderlinedRows :
               /\ RowAt(p).line_num = PositionCoord(content, input.labels[1].range.start).line + 1
               /\ RowAt(p).underline.glyph = "arrow_up"
               /\ RowAt(p).underline.glyphs =
                      ColumnsBetween(PositionCoord(content, input.labels[1].range.start).column,
                                     PositionCoord(content, input.labels[1].range.end).column)
               /\ RowAt(p).underline.message = <<input.labels[1].id>>

\* a range whose two ends lie on one line of the content, start not before end
DegenerateSingleLine(label) ==
    /\ label.range.start >= label.range.end
    /\ label.range.start <= Len(content)
    /\ is_char_boundary(content, label.range.start)
    /\ is_char_boundary(content, label.range.end)
    /\ NewlinesBefore(content, label.range.start) = NewlinesBefore(content, label.range.end)

\* C16: a single-line label whose byte range is reversed (3..1 on "abc") or
\* of zero length renders without error and its underline row contains
\* exactly one marker glyph: never zero glyphs, never a negative-width run.
C16_DegenerateRangeOneGlyph ==
    (Rendered /\ DegenerateSingleLine(input.labels[1])) =>
        /\ res.outcome = "ok"
        /\ Cardinality(UnderlinedRows) = 1
        /\ \A p \in UnderlinedRows : Cardinality(RowAt(p).underline.glyphs) = 1

-----------------------------------------------------------------------------
(* Specification of the snippets of a diagnostic: Init draws the content,  *)
(* the labels in any order, with and without sources of their own, and the *)
(* diagnostic with and without a source.                                   *)

MaxSnippetLabels == 2
MaxSnippetOffset == 1

\* no line, one line, two lines, "\r\n" followed by a two-byte character
SnippetContents ==
    {<<>>, <<"a">>, <<"a", "NL", "a">>, <<"CR", "NL", "W1", "W2">>}

SnippetRanges == [start : 0..MaxSnippetOffset, end : 0..MaxSnippetOffset]

SnippetLabelLists ==
    UNION {{[k \in 1..n |-> [range |-> f[k].range, source |-> f[k].source, id |-> k]] :
               f \in [1..n -> [range : SnippetRanges, source : {"none", "A", "B"}]]} :
           n \in 0..MaxSnippetLabels}

InitSnippets ==
    /\ content \in SnippetContents
    /\ input \in [labels : SnippetLabelLists, diag_source : {"none", "D"},
                  context_lines : {0, 1}]
    /\ op = "init"
    /\ res = <<>>

SpecSnippets == InitSnippets /\ [][NextRender]_vars

-----------------------------------------------------------------------------
(* Claims about the snippets of a diagnostic *)

\* the name of the source a label resolves to, "none" if it has no source
ResolvedName(label) ==
    IF ResolvedSource(label) = "none" THEN "none" ELSE SourceName(ResolvedSource(label))

SnippetNames == {ResolvedName(input.labels[k]) : k \in 1..Len(input.labels)} \ {"none"}

FirstOccurrence(name) ==
    SetMin({k \in 1..Len(input.labels) : ResolvedName(input.labels[k]) = name})

\* header, contexts separated by exactly one break, footer
WellFormedSnippet(rows) ==
    /\ Len(rows) >= 3
    /\ rows[1] = "header"
    /\ rows[Len(rows)] = "footer"
    /\ \A k \in 2..(Len(rows) - 1) : rows[k] = IF k % 2 = 0 THEN "context" ELSE "break"
    /\ rows[Len(rows) - 1] = "context"

\* C17: for the labels of one diagnostic, exactly one snippet is rendered per
\* distinct resolved source name, in order of first occurrence of each name
\* among the labels; a snippet is one header row, the group's label contexts
\* with exactly one vertical-break row between consecutive contexts, and one
\* footer row.  Labels whose sources are different instances with the same
\* name belong to the same snippet.
C17_OneSnippetPerSourceName ==
    Rendered =>
        /\ Len(res.groups) = Cardinality(SnippetNames)
        /\ \A g \in 1..Len(res.groups) :
               /\ res.groups[g].header[1] \in SnippetNames
               /\ WellFormedSnippet(res.groups[g].rows)
               /\ \A h \in 1..(g - 1) :
                      FirstOccurrence(res.groups[h].header[1]) <
                          FirstOccurrence(res.groups[g].header[1])

\* the labels that have a source of their own
with_source(labels) == SelectSeq(labels, LAMBDA l : l.source # "none")

\* C18: a label that has no source of its own, in a diagnostic whose
\* source_code() is None, is omitted from the output without any error; the
\* rest of the diagnostic is rendered exactly as if the label were not in the
\* label list.
C18_SourcelessLabelOmitted ==
    (Rendered /\ input.diag_source = "none") =>
        res \in {render_source(with_source(input.labels), sorted, "none",
                               input.context_lines) :
                    sorted \in sort_unstable_by_start(with_source(input.labels))}

C18_Witness ==
    /\ Rendered
    /\ input.diag_source = "none"
    /\ res.outcome = "ok"
    /\ Len(res.groups) = 1
    /\ Len(input.labels) = 2
    /\ input.labels[1].source = "none"
    /\ input.labels[2].source = "A"

-----------------------------------------------------------------------------
(* Claims about the suggestions of a help message *)

HelpRendered == op = "render_help"

Descending(suggestions) ==
    \A i, j \in 1..Len(suggestions) : i < j => suggestions[i].start >= suggestions[j].start

Ascending(suggestions) ==
    \A i, j \in 1..Len(suggestions) : i < j => suggestions[i].start <= suggestions[j].start

\* C19: within one displayed line, suggestions are styled in descending order
\* of their start offset (rightmost edit first) and their arrows are then
\* drawn in ascending order of start offset, for any mix of Deletion,
\* Insertion and Replacement suggestions on that line.
C19_SuggestionsOrderedByStart ==
    HelpRendered =>
        \A k \in 1..Len(res.rows) :
            /\ Descending(res.rows[k].styled)
            /\ Ascending(res.rows[k].drawn)

-----------------------------------------------------------------------------
(* Specification of the arrows of a help message: as SpecHelp, with lists  *)
(* of at most MaxArrowSuggestions suggestions.                             *)

MaxArrowSuggestions == 1

InitArrows ==
    /\ content \in HelpContents
    /\ input \in [suggestions : UNION {[1..n -> Suggestions] : n \in 0..MaxArrowSuggestions}]
    /\ op = "init"
    /\ res = <<>>

SpecArrows == InitArrows /\ [][NextHelp]_vars

\* the length of the literal of an Insertion or a Replacement, the length of
\* the byte range of a Deletion (0 if the range is reversed)
ExpectedArrows(s) ==
    IF s.kind = "Deletion"
    THEN (IF s.end > s.start THEN s.end - s.start ELSE 0)
    ELSE Len(s.value)

RECURSIVE SumExpectedArrows(_)
SumExpectedArrows(suggestions) ==
    IF suggestions = <<>> THEN 0
    ELSE ExpectedArrows(Head(suggestions)) + SumExpectedArrows(Tail(suggestions))

ArrowsIn(row) == Cardinality({k \in 1..Len(row) : row[k] = "^"})

\* C20: the number of arrow glyphs drawn under a suggestion equals the length
\* of the inserted literal for an Insertion, the length of the replacement
\* literal for a Replacement (5 for replacing "fals" by "false", not 4), and
\* the length of the deleted byte range for a Deletion.  Lengths are
\* String::len and Range::len, in bytes.
C20_ArrowCount ==
    HelpRendered =>
        \A k \in 1..Len(res.rows) :
            ~res.rows[k].panic =>
                /\ ArrowsIn(res.rows[k].arrows) = SumExpectedArrows(res.rows[k].drawn)
                /\ Len(res.rows[k].drawn) = 1 =>
                       SubSeq(res.rows[k].arrows,
                              Len(res.rows[k].arrows) - ExpectedArrows(res.rows[k].drawn[1]) + 1,
                              Len(res.rows[k].arrows))
                           = [i \in 1..ExpectedArrows(res.rows[k].drawn[1]) |-> "^"]

\* a Replacement whose literal is longer than the range it replaces
C20_Witness ==
    /\ HelpRendered
    /\ res.outcome = "ok"
    /\ Len(res.rows) = 1
    /\ Len(res.rows[1].drawn) = 1
    /\ res.rows[1].drawn[1].kind = "Replacement"
    /\ Len(res.rows[1].drawn[1].value) = 1
    /\ res.rows[1].drawn[1].end = res.rows[1].drawn[1].start
    /\ ArrowsIn(res.rows[1].arrows) = 1

-----------------------------------------------------------------------------
(* Two renders in sequence on one renderer: as SpecTree, and when a render *)
(* has returned the same diagnostic is rendered once more into a new,      *)
(* empty sink.  The renderer keeps its current_indent; res.first keeps the *)
(* output and the result of the first render.                              *)

RenderFmtAgain ==
    /\ op = "returned"
    /\ "first" \notin DOMAIN res
    /\ op' = "render_fmt"
    /\ res' = [current_indent |-> res.current_indent,
               stack |-> <<frame(<<>>, "render_header", 0)>>,
               result |-> "none",
               sink |-> [written |-> <<>>, capacity |-> input.capacity, refused |-> 0],
               first |-> [written |-> res.sink.written, result |-> res.result]]
    /\ UNCHANGED <<content, input>>

NextTwice == NextTree \/ RenderFmtAgain

SpecTwice == InitTree /\ [][NextTwice]_vars

RenderedTwice == op = "returned" /\ "first" \in DOMAIN res

\* C21: rendering the same diagnostic twice in sequence on the same renderer
\* with use_colors = false, each render succeeding, produces byte-identical
\* output.
C21_SecondRenderIdentical ==
    (RenderedTwice /\ res.first.result = "ok" /\ res.result = "ok") =>
        res.sink.written = res.first.written

C21_Witness ==
    /\ RenderedTwice
    /\ res.first.result = "ok"
    /\ res.result = "ok"
    /\ input.causes >= 1 /\ input.depth >= 2 /\ input.labels
    /\ \E k \in 1..Len(res.sink.written) : res.sink.written[k].indent = 2 * padding

-----------------------------------------------------------------------------
(* The handlers: DiagnosticHandler and BufferedDiagnosticHandler.

   input.handler names the type of the handler.  The handler lives in res:
   emitted_diagnostics, exit_on_error, buffer; `stderr` is what render_stderr
   has printed, `result` what the last call returned, `reported` the number
   of diagnostics reported so far, `drained` the diagnostics the last drain
   took from the store, `before` the handler as the last call found it.  A diagnostic is its number in the order of the reports and its
   severity.  The renderer is any Renderer: a render may return Err. *)

MaxReports == 3

Severities == {"Error", "Warning", "Note"}

Handlers == {"DiagnosticHandler", "BufferedDiagnosticHandler"}

\* the text a renderer returns for a diagnostic
rendered_text(diagnostic) == <<"rendered", diagnostic.id>>

rendered_texts(diagnostics) ==
    [k \in 1..Len(diagnostics) |-> rendered_text(diagnostics[k])]

\* Vec::push in front instead of at the back
push_front(store, diagnostic) == <<diagnostic>> \o store

\* Vec::push
push(store, diagnostic) == Append(store, diagnostic)

\* a drain that leaves in the store what it did not render
store_keeps_rest(store, failing) ==
    IF failing = 0 THEN <<>> ELSE SubSeq(store, failing, Len(store))

\* the store once the iterator of Vec::drain(..) is dropped, consumed or not
store_after_drain(store, failing) == <<>>

\* a severity test that also takes warnings
is_error_or_warning(diagnostic) == diagnostic.severity \in {"Error", "Warning"}

\* diagnostic.severity() == Severity::Error
is_error(diagnostic) == diagnostic.severity = "Error"

\* the diagnostics whose render returned Ok: all of them, or those before
\* the one of index `failing` whose render returned Err
rendered_before(store, failing) ==
    IF failing = 0 THEN store ELSE SubSeq(store, 1, failing - 1)

encountered_errors(diagnostics) ==
    Cardinality({k \in 1..Len(diagnostics) : is_error(diagnostics[k])})

\* what drain returns
drain_result(handler, exit_on_error, diagnostics, failing) ==
    IF failing # 0 THEN <<"Err", "Fmt">>
    ELSE IF handler = "DiagnosticHandler" /\ encountered_errors(diagnostics) > 0
            /\ exit_on_error
    THEN <<"Err", "CompoundError", encountered_errors(diagnostics)>>
    ELSE <<"Ok">>

snapshot(h) ==
    [emitted_diagnostics |-> h.emitted_diagnostics, buffer |-> h.buffer,
     stderr |-> h.stderr, exit_on_error |-> h.exit_on_error]

\* Handler::report on the handler h
report(h, severity) ==
    [h EXCEPT !.emitted_diagnostics =
                  push(@, [id |-> h.reported + 1, severity |-> severity]),
              !.reported = @ + 1,
              !.result = <<"Ok">>]

\* Handler::drain on the handler h, where the render of the diagnostic of
\* index `failing` returns Err (0: every render returns Ok)
drain(h, failing) ==
    [h EXCEPT !.emitted_diagnostics = store_after_drain(@, failing),
              !.drained = h.emitted_diagnostics,
              !.stderr = IF input.handler = "DiagnosticHandler"
                         THEN @ \o rendered_texts(rendered_before(h.emitted_diagnostics, failing))
                         ELSE @,
              !.buffer = IF input.handler = "BufferedDiagnosticHandler"
                         THEN @ \o rendered_texts(rendered_before(h.emitted_diagnostics, failing))
                         ELSE @,
              !.result = drain_result(input.handler, h.exit_on_error,
                                      h.emitted_diagnostics, failing)]

InitHandler ==
    /\ content = <<>>
    /\ input \in [handler : Handlers]
    /\ op = "init"
    /\ res = [emitted_diagnostics |-> <<>>, exit_on_error |-> FALSE, buffer |-> <<>>,
              stderr |-> <<>>, result |-> <<"Ok">>, reported |-> 0, drained |-> <<>>,
              before |-> [emitted_diagnostics |-> <<>>, buffer |-> <<>>,
                          stderr |-> <<>>, exit_on_error |-> FALSE]]

ExitOnError ==
    /\ input.handler = "DiagnosticHandler"
    /\ ~res.exit_on_error
    /\ op' = "exit_on_error"
    /\ res' = [res EXCEPT !.exit_on_error = TRUE, !.before = snapshot(res),
                          !.result = <<"Ok">>]
    /\ UNCHANGED <<content, input>>

Report ==
    /\ res.reported < MaxReports
    /\ op' = "report"
    /\ \E severity \in Severities :
           res' = [report(res, severity) EXCEPT !.before = snapshot(res)]
    /\ UNCHANGED <<content, input>>

Drain ==
    /\ op' = "drain"
    /\ \E failing \in 0..Len(res.emitted_diagnostics) :
           res' = [drain(res, failing) EXCEPT !.before = snapshot(res)]
    /\ UNCHANGED <<content, input>>

ReportAndDrain ==
    /\ res.reported < MaxReports
    /\ op' = "report_and_drain"
    /\ \E severity \in Severities :
           \E failing \in 0..(Len(res.emitted_diagnostics) + 1) :
               res' = [drain(report(res, severity), failing) EXCEPT !.before = snapshot(res)]
    /\ UNCHANGED <<content, input>>

NextHandler ==
    \/ ExitOnError
    \/ Report
    \/ Drain
    \/ ReportAndDrain

SpecHandler == InitHandler /\ [][NextHandler]_vars

-----------------------------------------------------------------------------
(* Claims about the handlers *)

Drained == op \in {"drain", "report_and_drain"}

\* C22: after drain() returns on a DiagnosticHandler or a
\* BufferedDiagnosticHandler, whether with Ok, with a Fmt error raised while
\* rendering some diagnostic, or with CompoundError, the handler's store is
\* empty: count() is 0 and emitted() yields nothing.
C22_StoreEmptyAfterDrain ==
    Drained => /\ Len(res.emitted_diagnostics) = 0
               /\ res.emitted_diagnostics = <<>>

\* a drain that failed while diagnostics were still waiting behind the one
\* whose render failed
C22_Witness ==
    /\ op = "drain"
    /\ res.result = <<"Err", "Fmt">>
    /\ Len(res.before.emitted_diagnostics) = 3
    /\ Len(res.stderr) + Len(res.buffer) = 0
    /\ res.emitted_diagnostics = <<>>

ErrorsDrained ==
    Cardinality({k \in 1..Len(res.drained) : res.drained[k].severity = "Error"})

IsCompoundError == Len(res.result) = 3 /\ res.result[2] = "CompoundError"

DiagnosticHandlerDrained == Drained /\ input.handler = "DiagnosticHandler"

\* C23 as written: DiagnosticHandler::drain returns Err(CompoundError(n))
\* exactly when exit_on_error was enabled and n >= 1, where n is the number
\* of drained top-level diagnostics whose severity is Error; every stored
\* diagnostic is rendered before CompoundError is returned; when
\* exit_on_error is not enabled and no render fails, drain returns Ok
\* whatever the severities.
C23_CompoundErrorIffErrors ==
    DiagnosticHandlerDrained =>
        /\ IsCompoundError <=> (res.exit_on_error /\ ErrorsDrained >= 1)
        /\ IsCompoundError =>
               /\ res.result[3] = ErrorsDrained
               /\ res.stderr = res.before.stderr \o rendered_texts(res.drained)
        /\ (~res.exit_on_error /\ res.result # <<"Err", "Fmt">>) => res.result = <<"Ok">>

\* C23, amended: DiagnosticHandler::drain returns Err(CompoundError(n))
\* exactly when exit_on_error was enabled, no render failed and n >= 1 (a
\* render that fails makes drain return the Fmt error instead, whatever was
\* rendered before it); n counts the drained top-level diagnostics of
\* severity Error, every stored diagnostic is rendered before CompoundError
\* is returned, and without exit_on_error a drain in which no render fails
\* returns Ok.
C23_CompoundErrorUnlessFmt ==
    DiagnosticHandlerDrained =>
        /\ IsCompoundError <=>
               (res.exit_on_error /\ ErrorsDrained >= 1 /\ res.result # <<"Err", "Fmt">>)
        /\ IsCompoundError =>
               /\ res.result[3] = ErrorsDrained
               /\ res.stderr = res.before.stderr \o rendered_texts(res.drained)
        /\ (~res.exit_on_error /\ res.result # <<"Err", "Fmt">>) => res.result = <<"Ok">>

\* two errors and a warning drained with exit_on_error: CompoundError(2)
C23_Witness ==
    /\ DiagnosticHandlerDrained
    /\ res.result = <<"Err", "CompoundError", 2>>
    /\ Len(res.drained) = 3
    /\ \E k \in 1..3 : res.drained[k].severity = "Warning"

\* C24: report() only appends the diagnostic to the handler's store (count()
\* grows by exactly 1 and nothing is rendered); drain() renders the stored
\* diagnostics in the order they were reported; report_and_drain(d) renders
\* every previously stored diagnostic followed by d; for
\* BufferedDiagnosticHandler, buffer() after a successful drain equals the
\* previous buffer followed by the rendered texts in report order.
C24_ReportThenDrainInOrder ==
    /\ op = "report" =>
           /\ Len(res.emitted_diagnostics) = Len(res.before.emitted_diagnostics) + 1
           /\ SubSeq(res.emitted_diagnostics, 1, Len(res.before.emitted_diagnostics))
                  = res.before.emitted_diagnostics
           /\ res.emitted_diagnostics[Len(res.emitted_diagnostics)].id = res.reported
           /\ res.stderr = res.before.stderr
           /\ res.buffer = res.before.buffer
    /\ Drained =>
           /\ \A k \in 1..(Len(res.drained) - 1) : res.drained[k].id < res.drained[k + 1].id
           /\ op = "drain" => res.drained = res.before.emitted_diagnostics
           /\ op = "report_and_drain" =>
                  /\ SubSeq(res.drained, 1, Len(res.drained) - 1) = res.before.emitted_diagnostics
                  /\ res.drained[Len(res.drained)].id = res.reported
           /\ \E n \in 0..Len(res.drained) :
                  /\ res.stderr \o res.buffer
                         = res.before.stderr \o res.before.buffer
                               \o rendered_texts(SubSeq(res.drained, 1, n))
                  /\ res.result # <<"Err", "Fmt">> => n = Len(res.drained)
           /\ input.handler = "BufferedDiagnosticHandler" =>
                  /\ res.stderr = <<>>
                  /\ res.result = <<"Ok">> =>
                         res.buffer = res.before.buffer \o rendered_texts(res.drained)
           /\ input.handler = "DiagnosticHandler" => res.buffer = <<>>

\* a second successful drain of a buffered handler, after which the buffer
\* holds the texts of both drains
C24_Witness ==
    /\ op = "report_and_drain"
    /\ input.handler = "BufferedDiagnosticHandler"
    /\ res.result = <<"Ok">>
    /\ Len(res.before.buffer) = 1
    /\ Len(res.drained) = 2
    /\ res.buffer = <<<<"rendered", 1>>, <<"rendered", 2>>, <<"rendered", 3>>>>

-----------------------------------------------------------------------------
(* Specification of the label contexts: Init draws a content of one to     *)
(* three lines, up to MaxContextLabels labels on the diagnostic's source,  *)
(* and context_lines; the action renders them.                             *)

MaxContextLabels == 2
MaxContextOffset == 5

\* "a", "a\na", "\na", "a\na\na"
ContextContents ==
    {<<"a">>, <<"a", "NL", "a">>, <<"NL", "a">>, <<"a", "NL", "a", "NL", "a">>}

ContextRanges == [start : 0..MaxContextOffset, end : 0..MaxContextOffset]

\* the labels of the ranges f, on the diagnostic's source
ContextLabels(f, n) == [k \in 1..n |-> [range |-> f[k], source |-> "none", id |-> k]]

InitContext ==
    /\ content \in ContextContents
    /\ \E n \in 1..MaxContextLabels :
           \E f \in [1..n -> ContextRanges] :
               input \in [labels : {ContextLabels(f, n)}, diag_source : {"D"},
                          context_lines : {0, 1}]
    /\ op = "init"
    /\ res = <<>>

SpecContext == InitContext /\ [][NextRender]_vars

-----------------------------------------------------------------------------
(* Claims about the rows of a label context *)

\* the contexts of the render, as <<group, context>>
RenderedContexts ==
    {<<g, c>> \in (1..Len(res.groups)) \X (1..MaxContextLabels + 1) :
        c <= Len(res.groups[g].contexts)}

ContextAt(p) == res.groups[p[1]].contexts[p[2]]

\* the 1-based index, in the content, of the line shown by row k of a context
ShownLine(context, k) == NewlinesBefore(content, context.from) + k

LabelIds(underline) == {underline.labels[m] : m \in 1..Len(underline.labels)}

\* C25: in a context with a multi-line parent, the underline/connector rows
\* of each single-line child label are emitted directly below the displayed
\* source line on which that child's span starts, for every line on which
\* the parent starts and every value of context_lines.
C25_ChildRowsBelowTheirLine ==
    Rendered =>
        \A p \in RenderedContexts :
            (ContextAt(p).multiline /\ ~ContextAt(p).panic) =>
                \A k \in 1..Len(ContextAt(p).rows) :
                    \A i \in LabelIds(ContextAt(p).rows[k].underline) :
                        ShownLine(ContextAt(p), k)
                            = NewlinesBefore(content, input.labels[i].range.start) + 1

\* C26: the gutter number of every displayed source line is the 1-based
\* index of that line in the content of the source, also for a clamped
\* window, a range that starts at the end of a line and the fallback window.
C26_GutterIsLineNumber ==
    Rendered => \A p \in RenderedContexts :
        \A k \in 1..Len(ContextAt(p).rows) :
            ContextAt(p).rows[k].line_num = ShownLine(ContextAt(p), k)

\* the labels whose message a row of underlines and the rows below it hold:
\* the single label of the row, or the labels of the rows of elbows
MessagesBelow(underline) ==
    IF underline.elbows = <<>> THEN underline.message ELSE underline.labels

Count(seq, x) == Cardinality({m \in 1..Len(seq) : seq[m] = x})

\* how many times a context writes the message of the label i
WrittenIn(context, i) ==
    Count(context.bottom, i)
    + Cardinality({<<k, m>> \in (1..Len(context.rows)) \X (1..MaxContextLabels + 1) :
                      /\ m <= Len(MessagesBelow(context.rows[k].underline))
                      /\ MessagesBelow(context.rows[k].underline)[m] = i})

\* how many times the render writes the message of the label i
TimesWritten(i) ==
    Cardinality({<<p, n>> \in RenderedContexts \X (1..MaxContextLabels + 1) :
                    n <= WrittenIn(ContextAt(p), i)})

\* C27: every label whose source resolves has its message written exactly
\* once by the render, parent or child, single-line or multi-line (every
\* label of this specification is on the diagnostic's source).
C27_EveryMessageOnce ==
    Rendered => \A i \in 1..Len(input.labels) : TimesWritten(input.labels[i].id) = 1

-----------------------------------------------------------------------------
(* Specification of the edits of one line: a content of one line of        *)
(* one-byte characters and one or two suggestions on it; the action        *)
(* renders the help message.                                               *)

MaxEdits == 2
MaxEditOffset == 3

\* "aa", "aaa"
EditContents == {<<"a", "a">>, <<"a", "a", "a">>}

EditOffsets == 0..MaxEditOffset

Edits ==
    {[kind |-> "Deletion", start |-> a, end |-> b, value |-> <<>>] :
        a \in EditOffsets, b \in EditOffsets}
    \cup {[kind |-> "Insertion", start |-> a, end |-> a, value |-> v] :
        a \in EditOffsets, v \in Values}
    \cup {[kind |-> "Replacement", start |-> r.start, end |-> r.end, value |-> v] :
        r \in [start : EditOffsets, end : EditOffsets], v \in Values}

InitEdits ==
    /\ content \in EditContents
    /\ input \in [suggestions : UNION {[1..n -> Edits] : n \in 1..MaxEdits}]
    /\ op = "init"
    /\ res = <<>>

SpecEdits == InitEdits /\ [][NextHelp]_vars

\* by how many characters a suggestion makes the printed line longer than
\* the source line: a deleted range is still printed
Growth(s) ==
    IF s.kind = "Insertion" THEN Len(s.value)
    ELSE IF s.kind = "Replacement"
    THEN Len(s.value) - range_len([start |-> s.start, end |-> s.end])
    ELSE 0

RECURSIVE SumGrowth(_)
SumGrowth(suggestions) ==
    IF suggestions = <<>> THEN 0
    ELSE Growth(Head(suggestions)) + SumGrowth(Tail(suggestions))

\* the column of the printed line at which the text of the suggestion s
\* begins: its column in the source line, moved by the suggestions before it
TextColumn(s, suggestions) ==
    CharsSinceNewline(content, Min(s.start, Len(content)))
    + SumGrowth(SelectSeq(suggestions, LAMBDA t : t.start < s.start))

\* C28: the run of arrows of each suggestion begins at the column at which
\* the text of that suggestion begins in the printed, edited line, also when
\* an earlier suggestion on the line has changed the length of the line.
C28_ArrowsBeginAtText ==
    HelpRendered =>
        \A k \in 1..Len(res.rows) :
            ~res.rows[k].panic =>
                \A m \in 1..Len(res.rows[k].drawn) :
                    ExpectedArrows(res.rows[k].drawn[m]) > 0 =>
                        res.rows[k].starts[m]
                            = TextColumn(res.rows[k].drawn[m], res.rows[k].drawn)

-----------------------------------------------------------------------------
(* StyledText: a string and the vector `chars` of the styles of its        *)
(* characters.  content is the string given to StyledText::new, res the    *)
(* StyledText (str, chars) and what its render has emitted; render takes   *)
(* the StyledText by value, so that nothing follows it.                    *)

\* most bytes of a styled text
MaxStyledLen == 3

\* "", "a", "é"
StyledStrings == {<<>>, <<"a">>, <<"W1", "W2">>}

\* Style::new() and a style of the theme
Styles == {"plain", "insertion"}

\* vec![style; str.len()]
styles_of(str, style) == [k \in 1..Len(str) |-> style]

\* StyledText::new: one default style for each byte of the string
new(str) == [str |-> str, chars |-> styles_of(str, "plain")]

\* StyledText::append
append(text, str, style) ==
    [str |-> text.str \o str, chars |-> text.chars \o styles_of(str, style)]

\* StyledText::style_span: the loop ends at the first index without an entry
style_span(text, span, style) ==
    [str |-> text.str,
     chars |-> [k \in 1..Len(text.chars) |->
                   IF span.start <= k - 1 /\ k - 1 < span.end THEN style
                   ELSE text.chars[k]]]

\* StyledText::render: the characters zipped with the entries of `chars`
render(text) ==
    [k \in 1..Min(chars_count(text.str), Len(text.chars)) |->
        [c |-> text.str[nth_char(text.str, k - 1)], style |-> text.chars[k]]]

InitStyled ==
    /\ content \in StyledStrings
    /\ input = <<>>
    /\ op = "init"
    /\ res = <<>>

StyledNew ==
    /\ op = "init"
    /\ op' = "new"
    /\ res' = [text |-> new(content), emitted |-> <<>>]
    /\ UNCHANGED <<content, input>>

\* a StyledText has been constructed and not yet rendered
Styled == op \notin {"init", "render"}

StyledAppend ==
    /\ Styled
    /\ \E str \in StyledStrings, style \in Styles :
           /\ Len(res.text.str) + Len(str) <= MaxStyledLen
           /\ res' = [res EXCEPT !.text = append(res.text, str, style)]
    /\ op' = "append"
    /\ UNCHANGED <<content, input>>

StyledStyleSpan ==
    /\ Styled
    /\ \E span \in [start : 0..MaxStyledLen, end : 0..MaxStyledLen], style \in Styles :
           res' = [res EXCEPT !.text = style_span(res.text, span, style)]
    /\ op' = "style_span"
    /\ UNCHANGED <<content, input>>

StyledSetChar ==
    /\ Styled
    /\ \E offset \in 0..MaxStyledLen, c \in {"a", "hbar"} :
           res' = [res EXCEPT !.text.str = str_set_char(res.text.str, offset, c)]
    /\ op' = "str_set_char"
    /\ UNCHANGED <<content, input>>

StyledRender ==
    /\ Styled
    /\ op' = "render"
    /\ res' = [res EXCEPT !.emitted = render(res.text)]
    /\ UNCHANGED <<content, input>>

NextStyled ==
    \/ StyledNew
    \/ StyledAppend
    \/ StyledStyleSpan
    \/ StyledSetChar
    \/ StyledRender

SpecStyled == InitStyled /\ [][NextStyled]_vars

\* C29: after StyledText::new and any sequence of append, style_span and
\* str_set_char, the StyledText holds exactly one style entry for each
\* character of its string, and a render emits every character with the
\* style entry at the index of the character.
C29_OneStylePerCharacter ==
    op # "init" =>
        /\ Len(res.text.chars) = chars_count(res.text.str)
        /\ op = "render" =>
               /\ Len(res.emitted) = chars_count(res.text.str)
               /\ \A k \in 1..Len(res.emitted) :
                      res.emitted[k].style = res.text.chars[k]

-----------------------------------------------------------------------------
(* Specification of the rows of elbows: a content of two lines, a label    *)
(* over both lines and MaxElbowLabels labels on the first line, all on the *)
(* diagnostic's source; the action renders them.                           *)

MaxElbowLabels == 2
MaxElbowOffset == 3

\* "aaa\na"
ElbowContents == {<<"a", "a", "a", "NL", "a">>}

ElbowRanges == [start : 0..MaxElbowOffset, end : 0..MaxElbowOffset]

ElbowLabelLists ==
    {<<[range |-> [start |-> 0, end |-> 5], source |-> "none", id |-> 1]>>
         \o [k \in 1..MaxElbowLabels |->
                [range |-> f[k], source |-> "none", id |-> k + 1]] :
        f \in [1..MaxElbowLabels -> ElbowRanges]}

InitElbows ==
    /\ content \in ElbowContents
    /\ input \in [labels : ElbowLabelLists, diag_source : {"D"}, context_lines : {0, 1}]
    /\ op = "init"
    /\ res = <<>>

SpecElbows == InitElbows /\ [][NextRender]_vars

\* the end column of the label i, on a line of one-byte characters
EndColumn(i) == CharsSinceNewline(content, input.labels[i].range.end)

\* the positions of a row of elbows that hold the elbow, the bar and the
\* message of the label of the row, whose end column is e
OwnCells(row, e) ==
    {j \in 1..Len(row) : j >= saturating_sub(e, 1) + 1 /\ j # e + 2}

\* C30: when two or more single-line child labels are drawn below one
\* displayed line, no row of elbows holds the vertical connector of another
\* label where the elbow, the horizontal bar or the message of the label of
\* that row belongs, for any column ranges of the labels.
C30_ConnectorsKeepElbows ==
    Rendered => \A p \in RenderedContexts :
        \A k \in 1..Len(ContextAt(p).rows) :
            \A m \in 1..Len(ContextAt(p).rows[k].underline.elbows) :
                \A j \in OwnCells(ContextAt(p).rows[k].underline.elbows[m],
                                  EndColumn(ContextAt(p).rows[k].underline.labels[m])) :
                    ContextAt(p).rows[k].underline.elbows[m][j] # "vertical"
====
